---- MODULE Spec2Model ----
(***************************************************************************)
(* MorningstarScraper (src/morningstar_scraper.py): the paginated crawl    *)
(* of scrape(), its per-page fan-out of process_fund units over a          *)
(* ThreadPoolExecutor, get_fund_isin's retry loop, the lock-protected      *)
(* funds_data list and the checkpoint file written by save_progress.       *)
(*                                                                         *)
(* The browser is the environment.  A session displays one location:       *)
(*   Blank (0), listing page p (-p), or the detail page of fund n (n > 0). *)
(***************************************************************************)
EXTENDS Integers, Sequences, FiniteSets, TLC

\* ----------------------------------------------------------------- bounds
\* pool size: the max_workers argument of MorningstarScraper.__init__
MaxWorkers == 2
\* rows the first listing page shows at most (each later page shows one)
MaxFunds == 3
\* listing pages the site has at most, and passes of scrape's loop
MaxPages == 2

\* get_fund_isin's retries=3 default, the value every call uses
retries == 3

VARIABLES
    pc,          \* the orchestrator's position in scrape()
    page,        \* scrape's local `page`
    created,     \* sessions setup_driver has returned so far
    drivers,     \* self.drivers: the sessions of the pool, in order
    quits,       \* per session, how often quit() was called on it
    url,         \* per session, the location it displays
    page_funds,  \* scrape's local `page_funds`
    units,       \* the futures of the current page's fan-out
    lock,        \* self.lock: 0 when free, else the unit holding it
    firstTries,  \* history: units of this pass whose get_fund_isin returned
                 \* an identifier from its first attempt
    funds_data,  \* self.funds_data
    file,        \* morningstar_funds.json: the records it holds
    fileState,   \* "none" | "complete" | "torn": the file's condition
    saveCalls,   \* calls of save_progress so far
    savedPage,   \* page of the last checkpoint whose write completed (0: none)
    failedSaves, \* history: calls of save_progress that logged a failure
    lastSaved,   \* history: what the file held when a write last completed
    nextQueries, \* calls of is_next_button_available so far
    advances,    \* calls of click_next_button so far
    prev_first_fund, \* scrape's local `prev_first_fund`
    next_available,  \* history: what is_next_button_available did last
                     \* ("unset" | "true" | "false" | "raised")
    site,        \* the site crawled: the number of rows on each listing page
    pager,       \* the site's pagination anchors: "next" (a link titled
                 \* Next) or "postback" (numbered __doPostBack anchors only)
    call,        \* one call of get_fund_isin followed lookup by lookup
                 \* (IsinSpec): its attempt, what the page answers to each
                 \* strategy, the lookups made in the attempt, the result
    walk,        \* one call of click_until_page_visible_and_select followed
                 \* iteration by iteration (SelectSpec): its target, the
                 \* pager the session shows, its iterations, its outcome
    listed,      \* history: the list get_fund_links returned on each pass
    exit         \* history: why scrape's loop was left ("" while it runs)

vars == <<pc, page, created, drivers, quits, url, page_funds, units, lock,
          firstTries,
          funds_data, file, fileState, saveCalls, savedPage, failedSaves,
          lastSaved, nextQueries,
          advances, prev_first_fund, next_available, site, pager, call, walk,
          listed, exit>>

poolVars == <<created, drivers, quits>>
fileVars == <<file, fileState, saveCalls, savedPage, failedSaves, lastSaved>>
pagerVars == <<nextQueries, advances, prev_first_fund, next_available>>
unitVars == <<units, lock, firstTries, funds_data>>
\* what a unit of work never writes
orchVars == <<pc, page, page_funds, poolVars, fileVars, pagerVars, site,
              pager, call, walk, listed, exit>>
\* what a call of get_fund_isin followed on its own never writes
crawlVars == <<pc, page, page_funds, poolVars, fileVars, pagerVars, site,
               pager, listed, exit, url, unitVars, walk>>
\* what a call of click_until_page_visible_and_select followed on its own
\* never writes
selectFrame == <<pc, page, page_funds, poolVars, fileVars, pagerVars, site,
                 pager, listed, exit, url, unitVars, call>>

\* ------------------------------------------------------------ the browser
Blank == 0
Listing(p) == 0 - p
IsListing(loc) == loc < 0
IsDetail(loc) == loc > 0

Sessions == 1..MaxWorkers

\* the sites crawled: one page, possibly without rows, or several pages:
\* a first page with at least one row and later pages with one row each
Sites ==
    {s \in UNION {[1..k -> 0..MaxFunds] : k \in 1..MaxPages} :
        /\ Len(s) > 1 => s[1] >= 1
        /\ \A p \in 2..Len(s) : s[p] = 1}

\* the most funds a site lists in all, and the most a run lists
MaxListed == MaxFunds + MaxPages - 1

\* the fund shown in row i of listing page p, as get_fund_links builds it
FundId(p, i) == (p - 1) * MaxFunds + i
Fund(p, i) ==
    [name |-> FundId(p, i), link |-> FundId(p, i),
     rating |-> "Gold", category |-> "Equity"]

\* element texts are sequences of characters; SP is a blank, and the
\* identifier printed on fund n's detail page is the one character n
SP == 0
None == << -1 >>
PageIsin(loc) == <<SP, loc, SP>>

\* str.strip(): leading and trailing blanks removed
RECURSIVE LStrip(_)
LStrip(s) == IF s # <<>> /\ Head(s) = SP THEN LStrip(Tail(s)) ELSE s
RECURSIVE RStrip(_)
RStrip(s) ==
    IF s # <<>> /\ s[Len(s)] = SP THEN RStrip(SubSeq(s, 1, Len(s) - 1)) ELSE s
Strip(s) == RStrip(LStrip(s))

\* the primary lookup by element id and the four fallback XPath selectors
NumStrategies == 5

\* What the page under a session answers to the strategies of one attempt:
\* strategy `hit` (0: none) finds an element holding the page's identifier,
\* every other strategy times out ("noelem") or finds blank text ("blank").
Renderings == [hit : 0..NumStrategies, miss : {"noelem", "blank"}]

\* WebDriverWait(...).until(presence_of_element_located(...)) for strategy j:
\* the element's text, or found = FALSE when the wait raises
Locate(loc, r, j) ==
    IF IsDetail(loc) /\ r.hit = j THEN [found |-> TRUE, text |-> PageIsin(loc)]
    ELSE IF IsDetail(loc) /\ r.miss = "blank"
         THEN [found |-> TRUE, text |-> <<SP, SP>>]
         ELSE [found |-> FALSE, text |-> <<>>]

\* isin = element.text.strip(); if isin: return isin -- what one lookup
\* yields from what its wait found (None: go on to the next strategy)
ElementIsin(e) ==
    IF e.found /\ Strip(e.text) # <<>> THEN Strip(e.text) ELSE None

\* one strategy on the page a session shows
StrategyIsin(loc, r, j) == ElementIsin(Locate(loc, r, j))

\* the lookups of one attempt from strategy j on, in the code's order: the
\* first non-empty stripped text, or None when all of them fail
RECURSIVE FirstIsin(_, _)
FirstIsin(elements, j) ==
    IF j > Len(elements) THEN None
    ELSE IF ElementIsin(elements[j]) # None THEN ElementIsin(elements[j])
         ELSE FirstIsin(elements, j + 1)

\* the strategies of one attempt on the page a session shows
StrategiesFrom(loc, r, j) ==
    FirstIsin([k \in 1..NumStrategies |-> Locate(loc, r, k)], j)

\* ------------------------------------------------------------- the units
\* unit i of a page is submitted with self.drivers[i % max_workers]
\* (i counts from 0 in the code, from 1 here)
DriverOf(i) == ((i - 1) % MaxWorkers) + 1

UnitIds == 1..Len(units)
InCall(i) == units[i].st \in {"nav", "read"}
Running(i) == units[i].st \in {"nav", "read", "lock", "cs"}
Completed(i) == units[i].st \in {"done", "raised"}
NumRunning == Cardinality({i \in UnitIds : Running(i)})

\* a future: its state, and inside get_fund_isin the loop's `attempt`
\* (counted from 1), the random_sleep calls made so far, the attempts whose
\* strategies all came back empty so far (history), and the result
NewUnit ==
    [st |-> "queued", attempt |-> 0, sleeps |-> 0, empties |-> 0, isin |-> None]

\* a faulty variant: every submitted unit gets a thread of its own
CanStartUncapped(i) ==
    /\ units[i].st = "queued"
    /\ \A j \in UnitIds : j < i => units[j].st # "queued"

\* a worker thread of the executor is free and unit i heads the work queue
CanStart(i) ==
    /\ units[i].st = "queued"
    /\ NumRunning < MaxWorkers
    /\ \A j \in UnitIds : j < i => units[j].st # "queued"

\* unit i is at driver.get(fund_link) of an attempt: it is taken by a worker
\* thread now (process_fund -> get_fund_isin, attempt 1) or is in the loop
AtNav(i) == units[i].st = "nav" \/ CanStart(i)
Entered(u) == IF u.st = "queued" THEN [u EXCEPT !.st = "nav", !.attempt = 1] ELSE u

\* a faulty variant: the last failed attempt raises instead of returning None
AttemptFailedRaises(u, slept) ==
    IF u.attempt = retries
    THEN [u EXCEPT !.st = "raised"]
    ELSE [u EXCEPT !.st = "nav", !.attempt = u.attempt + 1,
                   !.sleeps = u.sleeps + slept]

\* a faulty variant: the handler retries at once, without its random_sleep
AttemptFailedNoBackoff(u, slept) ==
    IF u.attempt = retries
    THEN [u EXCEPT !.st = "lock", !.isin = None]
    ELSE [u EXCEPT !.st = "nav", !.attempt = u.attempt + 1]

\* a faulty variant: the budget is one attempt too long
AttemptFailedOneMore(u, slept) ==
    IF u.attempt = retries + 1
    THEN [u EXCEPT !.st = "lock", !.isin = None]
    ELSE [u EXCEPT !.st = "nav", !.attempt = u.attempt + 1,
                   !.sleeps = u.sleeps + slept]

\* the end of an attempt that found nothing: return None on the last
\* attempt, else sleep (after a navigation fault) and go round the loop
AttemptFailed(u, slept) ==
    IF u.attempt = retries
    THEN [u EXCEPT !.st = "lock", !.isin = None]
    ELSE [u EXCEPT !.st = "nav", !.attempt = u.attempt + 1,
                   !.sleeps = u.sleeps + slept]

\* the strategies of an attempt all came back empty
Missed(u) == [u EXCEPT !.empties = u.empties + 1]

\* driver.get(fund_link) succeeded; self.random_sleep() follows
NavOk(i) ==
    /\ AtNav(i)
    /\ url' = [url EXCEPT ![drivers[DriverOf(i)]] = page_funds[i].link]
    /\ units' = [units EXCEPT ![i] = [Entered(units[i]) EXCEPT
                                        !.st = "read",
                                        !.sleeps = units[i].sleeps + 1]]
    /\ UNCHANGED <<orchVars, lock, firstTries, funds_data>>

\* driver.get(fund_link) raised an Exception (timeout, network): the
\* handler returns None on the last attempt, else sleeps and retries.
\* The navigation may or may not have replaced the page by then.
NavFault(i) ==
    /\ AtNav(i)
    /\ \E landed \in BOOLEAN :
          url' = IF landed
                 THEN [url EXCEPT ![drivers[DriverOf(i)]] = page_funds[i].link]
                 ELSE url
    /\ units' = [units EXCEPT ![i] = AttemptFailed(Entered(units[i]), 1)]
    /\ UNCHANGED <<orchVars, lock, firstTries, funds_data>>

\* process_fund raises an unexpected fault outside get_fund_isin's
\* try/except (which catches every Exception of an attempt): the future
\* holds the exception and nothing is appended
UnitRaises(i) ==
    /\ CanStart(i)
    /\ units' = [units EXCEPT ![i] = [NewUnit EXCEPT !.st = "raised"]]
    /\ UNCHANGED <<orchVars, url, lock, firstTries, funds_data>>

\* the strategies of one attempt, read from the page the session shows now
ReadIsin(i) ==
    /\ units[i].st = "read"
    /\ \E r \in Renderings :
          LET isin == StrategiesFrom(url[drivers[DriverOf(i)]], r, 1)
          IN  units' = [units EXCEPT ![i] =
                            IF isin # None
                            THEN [units[i] EXCEPT !.st = "lock", !.isin = isin]
                            ELSE AttemptFailed(Missed(units[i]), 0)]
    /\ firstTries' = IF units'[i].isin # None /\ units[i].attempt = 1
                     THEN firstTries + 1 ELSE firstTries
    /\ UNCHANGED <<orchVars, url, lock, funds_data>>

\* fund["isin"] = isin
Enriched(fund, isin) ==
    [name |-> fund.name, link |-> fund.link, rating |-> fund.rating,
     category |-> fund.category, isin |-> isin]

\* a faulty variant: the append does not take the lock
LockIgnored == TRUE

\* self.lock is not held
LockFree == lock = 0

\* with self.lock: (acquire)
Acquire(i) ==
    /\ units[i].st = "lock"
    /\ LockFree
    /\ lock' = i
    /\ units' = [units EXCEPT ![i].st = "cs"]
    /\ UNCHANGED <<orchVars, url, firstTries, funds_data>>

\* self.funds_data.append(fund); the lock is released on leaving the block
\* and process_fund returns: its locals are gone
AppendFund(i) ==
    /\ units[i].st = "cs"
    /\ funds_data' = Append(funds_data, Enriched(page_funds[i], units[i].isin))
    /\ lock' = 0
    /\ units' = [units EXCEPT ![i] = [NewUnit EXCEPT !.st = "done"]]
    /\ UNCHANGED <<orchVars, url, firstTries>>

\* ------------------------------------------------------- the orchestrator
main_driver == drivers[1]

\* get_first_fund_name: the name in the first row of the listing a session
\* shows; None (NoName) when the table or the row cannot be read
NoName == 0
FirstFundName(loc) ==
    IF IsListing(loc) /\ site[0 - loc] > 0 THEN Fund(0 - loc, 1).name
    ELSE NoName

\* no call of get_fund_isin is followed on its own
NoCall == [attempt |-> 0, elements |-> <<>>, strategy |-> 0, isin |-> None]

\* no call of click_until_page_visible_and_select is followed on its own
NoWalk ==
    [target |-> 0, cur |-> 0, next |-> "absent", it |-> 0, clicks |-> 0,
     result |-> "none", why |-> ""]

\* the scraper after __init__, in front of a site
Constructed ==
    /\ pc = "setup"
    /\ page = 1
    /\ created = 0
    /\ drivers = <<>>
    /\ quits = [s \in Sessions |-> 0]
    /\ url = [s \in Sessions |-> Blank]
    /\ page_funds = <<>>
    /\ units = <<>>
    /\ lock = 0
    /\ firstTries = 0
    /\ funds_data = <<>>
    /\ file = <<>>
    /\ fileState = "none"
    /\ saveCalls = 0
    /\ savedPage = 0
    /\ failedSaves = 0
    /\ lastSaved = <<>>
    /\ nextQueries = 0
    /\ advances = 0
    /\ prev_first_fund = NoName
    /\ next_available = "unset"
    /\ site \in Sites
    /\ pager \in IF Len(site) > 1 THEN {"next", "postback"} ELSE {"next"}
    /\ listed = <<>>
    /\ exit = ""

Init == Constructed /\ call = NoCall /\ walk = NoWalk

\* self.drivers = [self.setup_driver() for _ in range(self.max_workers)]:
\* the list is assigned only when every session was created; a fault in
\* setup_driver goes to the top-level handler
SetupDrivers ==
    /\ pc = "setup"
    /\ \E k \in 0..MaxWorkers :
          /\ created' = k
          /\ IF k = MaxWorkers
             THEN /\ drivers' = [s \in 1..MaxWorkers |-> s]
                  /\ pc' = "open"
                  /\ exit' = exit
             ELSE /\ drivers' = drivers
                  /\ pc' = "finally"
                  /\ exit' = "fault"
    /\ UNCHANGED <<page, page_funds, quits, url, unitVars, fileVars, pagerVars,
                   site, pager, call, walk, listed>>

\* main_driver.get(self.base_url); a fault goes to the top-level handler
OpenListing ==
    /\ pc = "open"
    /\ \/ /\ url' = [url EXCEPT ![main_driver] = Listing(1)]
          /\ pc' = "wait"
          /\ exit' = exit
       \/ /\ url' = url
          /\ pc' = "finally"
          /\ exit' = "fault"
    /\ UNCHANGED <<page, page_funds, poolVars, unitVars, fileVars, pagerVars,
                   site, pager, call, walk, listed>>

\* WebDriverWait(main_driver, 20).until(presence of "mds-data-table"): a
\* timeout is raised to the top-level handler
WaitForTable ==
    /\ pc = "wait"
    /\ \/ /\ pc' = "links"
          /\ exit' = exit
       \/ /\ pc' = "finally"
          /\ exit' = "render"
    /\ UNCHANGED <<page, page_funds, poolVars, url, unitVars, fileVars,
                   pagerVars, site, pager, call, walk, listed>>

\* the rows get_fund_links returns for the listing the session shows, or
\* [] when it fails (its own wait times out)
RowsOf(loc, ok) ==
    IF ok /\ IsListing(loc) THEN [i \in 1..site[0 - loc] |-> Fund(0 - loc, i)]
    ELSE <<>>

\* a faulty variant: an empty first page does not leave the loop
BreaksOnEmptyLater(funds) == funds = <<>> /\ page > 1

\* a faulty variant: only an empty first page leaves the loop
BreaksOnEmptyFirst(funds) == funds = <<>> /\ page = 1 /\ funds_data = <<>>

\* `if not page_funds:` ... whether the loop is left
BreaksOnEmpty(funds) ==
    /\ funds = <<>>
    /\ \/ page > 1
       \/ page = 1 /\ funds_data = <<>>

\* page_funds = self.get_fund_links(main_driver) and the empty-page checks
GetFundLinks ==
    /\ pc = "links"
    /\ \E ok \in BOOLEAN :
          /\ page_funds' = RowsOf(url[main_driver], ok)
          /\ listed' = Append(listed, page_funds')
          /\ IF BreaksOnEmpty(page_funds')
             THEN /\ pc' = "finally"
                  /\ exit' = "empty"
             ELSE /\ pc' = "submit"
                  /\ exit' = exit
    /\ UNCHANGED <<page, poolVars, url, unitVars, fileVars, pagerVars, site,
                   pager, call, walk>>

\* the submit loop: one future per fund of the page
SubmitAll ==
    /\ pc = "submit"
    /\ units' = [i \in 1..Len(page_funds) |-> NewUnit]
    /\ firstTries' = 0
    /\ pc' = "barrier"
    /\ UNCHANGED <<page, page_funds, poolVars, url, lock, funds_data, fileVars,
                   pagerVars, site, pager, call, walk, listed, exit>>

\* a faulty variant: the orchestrator goes on at the first completed future
AnyCompleted == \A i \in UnitIds : \E j \in UnitIds : Completed(j)

\* as_completed(futures) has yielded every future and the executor's
\* __exit__ (shutdown(wait=True)) has returned
AllCompleted == \A i \in UnitIds : Completed(i)

\* the as_completed loop: a future's exception is logged, nothing else
Barrier ==
    /\ pc = "barrier"
    /\ AllCompleted
    /\ pc' = "save"
    /\ UNCHANGED <<page, page_funds, poolVars, url, unitVars, fileVars,
                   pagerVars, site, pager, call, walk, listed, exit>>

\* a faulty variant: the file is opened with mode 'a', which keeps what it
\* holds
SaveOpenAppends ==
    /\ pc = "save"
    /\ saveCalls' = saveCalls + 1
    /\ \/ /\ file' = file
          /\ fileState' = "torn"
          /\ pc' = "dump"
          /\ UNCHANGED <<failedSaves, exit>>
       \/ /\ UNCHANGED <<file, fileState>>
          /\ failedSaves' = failedSaves + 1
          /\ pc' = "nextq"
          /\ exit' = exit
    /\ UNCHANGED <<page, page_funds, poolVars, url, unitVars, savedPage,
                   lastSaved, pagerVars, site, pager, call, walk, listed>>

\* a faulty variant: a failure to open the file is not caught and reaches
\* the top-level handler
SaveOpenFatal ==
    /\ pc = "save"
    /\ saveCalls' = saveCalls + 1
    /\ \/ /\ file' = <<>>
          /\ fileState' = "torn"
          /\ pc' = "dump"
          /\ UNCHANGED <<failedSaves, exit>>
       \/ /\ UNCHANGED <<file, fileState>>
          /\ failedSaves' = failedSaves + 1
          /\ pc' = "finally"
          /\ exit' = "fault"
    /\ UNCHANGED <<page, page_funds, poolVars, url, unitVars, savedPage,
                   lastSaved, pagerVars, site, pager, call, walk, listed>>

\* save_progress: open('morningstar_funds.json', 'w') truncates the file;
\* a failure to open is logged and save_progress returns
SaveOpen ==
    /\ pc = "save"
    /\ saveCalls' = saveCalls + 1
    /\ \/ /\ file' = <<>>
          /\ fileState' = "torn"
          /\ pc' = "dump"
          /\ UNCHANGED <<failedSaves, exit>>
       \/ /\ UNCHANGED <<file, fileState>>
          /\ failedSaves' = failedSaves + 1
          /\ pc' = "nextq"
          /\ exit' = exit
    /\ UNCHANGED <<page, page_funds, poolVars, url, unitVars, savedPage,
                   lastSaved, pagerVars, site, pager, call, walk, listed>>

\* json.dump(obj, f, indent=2): the records of the list, in its order
Dumped(obj) == [n \in 1..Len(obj) |-> obj[n]]

\* save_progress: json.dump(self.funds_data, f, indent=2) writes the list
\* after what the open left in the file; a failure part-way leaves what was
\* written and is logged
SaveDump ==
    /\ pc = "dump"
    /\ \/ /\ file' = file \o Dumped(funds_data)
          /\ fileState' = "complete"
          /\ savedPage' = page
          /\ failedSaves' = failedSaves
          /\ lastSaved' = file'
       \/ /\ \E k \in 0..Len(funds_data) :
                file' = file \o SubSeq(Dumped(funds_data), 1, k)
          /\ fileState' = "torn"
          /\ savedPage' = savedPage
          /\ failedSaves' = failedSaves + 1
          /\ lastSaved' = lastSaved
    /\ pc' = "nextq"
    /\ UNCHANGED <<page, page_funds, poolVars, url, unitVars, saveCalls,
                   pagerVars, site, pager, call, walk, listed, exit>>

\* is_next_button_available: "div.r_pager a[title='Next']" is an element of
\* the listing; it is found, displayed and enabled (shown) or not
HasNext(loc, shown) == IsListing(loc) /\ 0 - loc < Len(site) /\ shown

\* a faulty variant: the advance is tried whatever the query answered
AlwaysClicks(available) == IF available = "raised" THEN "finally" ELSE "click"

\* where scrape goes after is_next_button_available: the advance when it
\* returned True, the `break` when it returned False, the top-level handler
\* when it raised
AfterNextQuery(available) == IF available = "true" THEN "click" ELSE "finally"

\* why the loop is left after is_next_button_available, if it is
ExitAfterNextQuery(available) ==
    IF available = "true" THEN exit
    ELSE IF available = "false" THEN "nonext" ELSE "fault"

\* if self.is_next_button_available(main_driver): prev_first_fund = ...
\* The control is displayed and enabled or not (shown); an exception other
\* than NoSuchElement/Timeout (a stale element, a dead session) is not
\* caught by is_next_button_available (stale).  A pager of postback
\* anchors has no such control.  On the pass MaxPages the control is not
\* shown: the loop makes at most MaxPages passes.
QueryNext ==
    /\ pc = "nextq"
    /\ nextQueries' = nextQueries + 1
    /\ \E shown \in BOOLEAN, stale \in BOOLEAN :
          /\ page = MaxPages => ~shown
          /\ pager = "postback" => ~shown
          /\ next_available' =
                IF stale THEN "raised"
                ELSE IF HasNext(url[main_driver], shown) THEN "true"
                ELSE "false"
    /\ pc' = AfterNextQuery(next_available')
    /\ exit' = ExitAfterNextQuery(next_available')
    /\ prev_first_fund' = IF next_available' = "true"
                          THEN FirstFundName(url[main_driver])
                          ELSE prev_first_fund
    /\ UNCHANGED <<page, page_funds, poolVars, url, unitVars, fileVars,
                   advances, site, pager, call, walk, listed>>

\* the number of items listed on the passes before pass j
RECURSIVE Off(_)
Off(j) == IF j <= 1 THEN 0 ELSE Off(j - 1) + Len(listed[j - 1])
TotalListed == Off(Len(listed) + 1)

\* click_next_button's verdict: the first fund name read after the click
\* differs from the one read before it
Advanced(nameAfter, prev) == nameAfter # prev

\* click_next_button: click, then wait until the first fund name differs;
\* the click may or may not load the next listing (moved), and the table
\* may or may not be readable (readable) when the name is read again.
\* A listing that stayed is unreadable only while the run lists at most
\* MaxListed funds with it (the bound on what a run processes).
ClickNext ==
    /\ pc = "click"
    /\ advances' = advances + 1
    /\ \E moved \in BOOLEAN, readable \in BOOLEAN :
          /\ (~moved /\ ~readable) =>
                TotalListed + Len(page_funds) <= MaxListed
          /\ LET loc == IF moved THEN url[main_driver] - 1
                        ELSE url[main_driver]
                 nameAfter == IF readable THEN FirstFundName(loc) ELSE NoName
             IN  /\ url' = [url EXCEPT ![main_driver] = loc]
                 /\ IF Advanced(nameAfter, prev_first_fund)
                    THEN /\ page' = page + 1
                         /\ pc' = "wait"
                         /\ exit' = exit
                    ELSE /\ page' = page
                         /\ pc' = "finally"
                         /\ exit' = "advance"
    /\ UNCHANGED <<page_funds, poolVars, unitVars, fileVars, nextQueries,
                   prev_first_fund, next_available, site, pager, call, walk,
                   listed>>

\* a faulty variant: one try around the whole loop, so that the first quit
\* that fails ends it
ShutdownStopsAtFailure ==
    /\ pc = "finally"
    /\ \E n \in 0..Len(drivers) :
          quits' = [s \in Sessions |->
                       IF \E k \in 1..n : drivers[k] = s
                       THEN quits[s] + 1 ELSE quits[s]]
    /\ pc' = "done"
    /\ UNCHANGED <<page, page_funds, created, drivers, url, unitVars, fileVars,
                   pagerVars, site, pager, call, walk, listed, exit>>

\* finally: driver.quit() for every driver of self.drivers, each in its own
\* try/except
Shutdown ==
    /\ pc = "finally"
    /\ quits' = [s \in Sessions |->
                    IF \E k \in 1..Len(drivers) : drivers[k] = s
                    THEN quits[s] + 1 ELSE quits[s]]
    /\ pc' = "done"
    /\ UNCHANGED <<page, page_funds, created, drivers, url, unitVars, fileVars,
                   pagerVars, site, pager, call, walk, listed, exit>>

UnitStep ==
    \E i \in UnitIds :
        \/ NavOk(i)
        \/ NavFault(i)
        \/ UnitRaises(i)
        \/ ReadIsin(i)
        \/ Acquire(i)
        \/ AppendFund(i)

Next ==
    \/ SetupDrivers
    \/ OpenListing
    \/ WaitForTable
    \/ GetFundLinks
    \/ SubmitAll
    \/ UnitStep
    \/ Barrier
    \/ SaveOpen
    \/ SaveDump
    \/ QueryNext
    \/ ClickNext
    \/ Shutdown

Spec == Init /\ [][Next]_vars

\* the orchestrator thread and the worker threads keep running: every wait
\* of the code is bounded (WebDriverWait timeouts, random_sleep, the lock
\* held for one append), so a step that can be taken is taken
FairSpec == Spec /\ WF_vars(Next)

\* --------------------------------- get_fund_isin, lookup by lookup
\* what the wait of one lookup can come back with: no element (the wait
\* raises), an element with blank text, or an element with a text
Answers ==
    {[found |-> FALSE, text |-> <<>>],
     [found |-> TRUE, text |-> <<SP, SP>>],
     [found |-> TRUE, text |-> <<SP, 1, SP>>],
     [found |-> TRUE, text |-> <<2>>]}

\* the pages an attempt can find under the session: an answer per strategy
PageAnswers == [1..NumStrategies -> Answers]

\* a faulty variant: the fallback selectors are tried before the primary
\* lookup, last one first
StrategyReversed(k) == NumStrategies + 1 - k

\* the k-th lookup of an attempt: the primary lookup by id first, then the
\* fallback selectors as the list `selectors` has them
StrategyOrder(k) == k

IsinInit ==
    /\ Constructed
    /\ site = <<1>>
    /\ walk = NoWalk
    /\ \E els \in PageAnswers :
          call = [attempt |-> 1, elements |-> els, strategy |-> 0,
                  isin |-> None]

\* the next lookup of the attempt: its stripped text is returned if it is
\* not empty
TryStrategy ==
    /\ call.isin = None
    /\ call.strategy < NumStrategies
    /\ call' = [call EXCEPT
                  !.strategy = call.strategy + 1,
                  !.isin = ElementIsin(
                              call.elements[StrategyOrder(call.strategy + 1)])]
    /\ UNCHANGED crawlVars

\* every strategy of the attempt failed and it was not the last attempt:
\* the loop goes round, driver.get loads the page again
NextAttempt ==
    /\ call.isin = None
    /\ call.strategy = NumStrategies
    /\ call.attempt < retries
    /\ \E els \in PageAnswers :
          call' = [attempt |-> call.attempt + 1, elements |-> els,
                   strategy |-> 0, isin |-> None]
    /\ UNCHANGED crawlVars

IsinNext == TryStrategy \/ NextAttempt

IsinSpec == IsinInit /\ [][IsinNext]_vars

\* ------------- click_until_page_visible_and_select, iteration by iteration
\* listing pages the pager under the session walks over
WalkPages == 3

\* `for _ in range(100)`
MaxIterations == 100

\* page_links: the numbered links the pager shows, those of the pages next
\* to the current one (whose number is a span)
PageLinks(w) == {p \in 1..WalkPages : p - w.cur \in {-1, 1}}

\* next_btn as the three tests on it see it: no link labelled next, a link
\* that is disabled (on the last page), or a link that can be clicked
NextControl(w) ==
    IF w.next = "absent" THEN "missing"
    ELSE IF w.cur = WalkPages THEN "disabled" ELSE "enabled"

\* the except branch: the pager's html, or driver.page_source when the pager
\* cannot be read, is written to pagination_debug.html and False returned.
\* Reading page_source and writing the file stand outside any try: when one
\* of them raises (dumped = FALSE) the exception leaves the function.
Handled(w, why, dumped) ==
    [w EXCEPT !.result = IF dumped THEN "false" ELSE "raised", !.why = why]

\* the loop has an iteration left and nothing was returned yet
Iterating == walk.result = "running" /\ walk.it < MaxIterations

\* neither a link nor the span is labelled with the target
TargetNotShown ==
    walk.target \notin PageLinks(walk) /\ walk.target # walk.cur

SelectInit ==
    /\ Constructed
    /\ site = <<1>>
    /\ call = NoCall
    /\ \E t \in 1..(WalkPages + 1), c \in 1..WalkPages,
          n \in {"link", "absent"} :
          walk = [target |-> t, cur |-> c, next |-> n, it |-> 0, clicks |-> 0,
                  result |-> "running", why |-> ""]

\* a command of the try block raises before anything is clicked: the
\* pager does not become visible, or the session does not answer
WalkFault ==
    /\ Iterating
    /\ \E dumped \in BOOLEAN :
          walk' = Handled([walk EXCEPT !.it = @ + 1], "fault", dumped)
    /\ UNCHANGED selectFrame

\* a link is labelled with the target: it is clicked, and True is returned
\* once the pager is visible again
ClickTarget ==
    /\ Iterating
    /\ walk.target \in PageLinks(walk)
    /\ \E visible, dumped \in BOOLEAN :
          LET w == [walk EXCEPT !.it = @ + 1]
          IN  walk' = IF visible
                      THEN [w EXCEPT !.cur = walk.target, !.result = "true",
                                     !.why = "link"]
                      ELSE Handled(w, "fault", dumped)
    /\ UNCHANGED selectFrame

\* no link but the span is labelled with the target: already on this page
FoundSpan ==
    /\ Iterating
    /\ walk.target \notin PageLinks(walk)
    /\ walk.target = walk.cur
    /\ walk' = [walk EXCEPT !.it = @ + 1, !.result = "true", !.why = "span"]
    /\ UNCHANGED selectFrame

\* the target is not shown and there is no next link to click: the pager's
\* html is written to pagination_debug.html (inside the try) and False
\* returned
NoNext ==
    /\ Iterating
    /\ TargetNotShown
    /\ NextControl(walk) # "enabled"
    /\ \E written, dumped \in BOOLEAN :
          LET w == [walk EXCEPT !.it = @ + 1]
          IN  walk' = IF written
                      THEN [w EXCEPT !.result = "false", !.why = "nonext"]
                      ELSE Handled(w, "nonext", dumped)
    /\ UNCHANGED selectFrame

\* the target is not shown: next is clicked, the pager moves on or stays,
\* and the loop goes round once the pager is visible again
ClickNextLink ==
    /\ Iterating
    /\ TargetNotShown
    /\ NextControl(walk) = "enabled"
    /\ \E moved, visible, dumped \in BOOLEAN :
          LET w == [walk EXCEPT !.it = @ + 1, !.clicks = @ + 1,
                                !.cur = IF moved THEN @ + 1 ELSE @]
          IN  walk' = IF visible THEN w ELSE Handled(w, "fault", dumped)
    /\ UNCHANGED selectFrame

\* the loop ran out: "Failed to reach page ..." and False
Exhausted ==
    /\ walk.result = "running"
    /\ walk.it = MaxIterations
    /\ walk' = [walk EXCEPT !.result = "false", !.why = "exhausted"]
    /\ UNCHANGED selectFrame

SelectNext ==
    \/ WalkFault
    \/ ClickTarget
    \/ FoundSpan
    \/ NoNext
    \/ ClickNextLink
    \/ Exhausted

SelectSpec == SelectInit /\ [][SelectNext]_vars

\* ------------------------------------------------------------ properties
\* a record of funds_data without its identifier: the listed item
Base(rec) ==
    [name |-> rec.name, link |-> rec.link, rating |-> rec.rating,
     category |-> rec.category]

\* the records at the places of `recs` that belong to pass j
Segment(recs, j) ==
    {n \in (Off(j) + 1)..(Off(j) + Len(listed[j])) : n <= Len(recs)}

\* `recs` holds exactly the items listed on passes 1..k: pass by pass, the
\* items of a pass in any order, each once
HoldsPages(recs, k) ==
    /\ Len(recs) = Off(k + 1)
    /\ \A j \in 1..k : \A m \in 1..Len(listed[j]) :
          Cardinality({n \in Segment(recs, j) : Base(recs[n]) = listed[j][m]}) = 1

\* C1: when the run has ended, funds_data holds one record for every item
\* get_fund_links returned on the passes of the run: as many records as items
\* listed, each listed item exactly once, none dropped.
C1_NoItemDropped == pc = "done" => HoldsPages(funds_data, Len(listed))

\* C2: no two units that are inside get_fund_isin at the same time use the
\* same session.
C2_SessionExclusive ==
    \A i \in UnitIds : \A j \in UnitIds :
        (i # j /\ InCall(i) /\ InCall(j)) => DriverOf(i) # DriverOf(j)

\* C3: the fan-out is a barrier: whenever the orchestrator is anywhere but in
\* the fan-out of a page (at the checkpoint, the pagination query, the
\* advance, the next page's wait and parse, the shutdown), every unit that
\* was submitted has completed, by returning or by raising.
C3_Barrier == pc # "barrier" => \A i \in UnitIds : Completed(i)

\* a page's barrier was passed with a unit that raised and one that returned
C3_Witness ==
    /\ pc = "save"
    /\ \E i \in UnitIds : units[i].st = "raised"
    /\ \E i \in UnitIds : units[i].st = "done"

\* C4: appends are exclusive: at most one unit is inside `with self.lock`,
\* and it is the holder of the lock; and while save_progress runs (it reads
\* funds_data without the lock) no unit is running, so no append overlaps
\* the read.
C4_AppendExclusive ==
    /\ \A i \in UnitIds : units[i].st = "cs" => lock = i
    /\ \A i \in UnitIds : \A j \in UnitIds :
          (units[i].st = "cs" /\ units[j].st = "cs") => i = j
    /\ pc \in {"save", "dump"} => \A i \in UnitIds : ~Running(i)

\* a unit holds the lock while another waits for it
C4_Witness ==
    \E i \in UnitIds : \E j \in UnitIds :
        units[i].st = "cs" /\ units[j].st = "lock"

\* C5: a unit whose strategies all came back empty (no element, or blank
\* text) on every one of the `retries` attempts has returned None from
\* get_fund_isin, it has not raised, and its append adds the listed item
\* with name, link, rating and category unchanged and isin None.
C5_AllEmptyAbsent ==
    /\ [](\A i \in UnitIds :
            units[i].empties = retries =>
                units[i].st \in {"lock", "cs"} /\ units[i].isin = None)
    /\ [][\A i \in UnitIds :
            (units[i].st = "cs" /\ units[i].empties = retries
                /\ units'[i].st = "done") =>
                funds_data' = Append(funds_data,
                    [name |-> page_funds[i].name, link |-> page_funds[i].link,
                     rating |-> page_funds[i].rating,
                     category |-> page_funds[i].category, isin |-> None])]_vars

\* get_fund_isin has returned None to a unit after three attempts whose
\* strategies all came back empty, and the unit is about to append
C5_Witness ==
    \E i \in UnitIds :
        units[i].st = "cs" /\ units[i].empties = retries /\ units[i].isin = None

\* C6 (as claimed): a unit whose get_fund_isin succeeded on the third
\* attempt made exactly 2 random_sleep calls.
C6_TwoPauses ==
    \A i \in UnitIds :
        (units[i].st = "lock" /\ units[i].attempt = retries
            /\ units[i].isin # None) => units[i].sleeps = 2

\* C6 (amended): when get_fund_isin succeeds on the third attempt, the
\* identifier it returns is the stripped text read on that attempt from the
\* page its session shows, exactly 3 random_sleep calls were made (one per
\* attempt), and the record appended carries the identifier returned.
C6_ThirdAttempt ==
    [][\A i \in UnitIds :
        /\ (units[i].st = "read" /\ units[i].attempt = retries
                /\ units'[i].st = "lock" /\ units'[i].isin # None) =>
              /\ units'[i].isin = Strip(PageIsin(url[drivers[DriverOf(i)]]))
              /\ units'[i].sleeps = retries
        /\ (units[i].st = "cs" /\ units'[i].st = "done") =>
              funds_data'[Len(funds_data')].isin = units[i].isin]_vars

\* the first two attempts timed out in driver.get, the third found the
\* identifier
C6_Witness ==
    \E i \in UnitIds :
        /\ units[i].st = "lock" /\ units[i].attempt = retries
        /\ units[i].empties = 0 /\ units[i].isin # None

\* C7: after the barrier of a page, every unit that raised has its item in
\* funds_data with an absent identifier.
C7_FaultRecordedAbsent ==
    pc = "save" =>
        \A i \in UnitIds :
            units[i].st = "raised" =>
                \E n \in 1..Len(funds_data) :
                    funds_data[n] = Enriched(page_funds[i], None)

\* C8: save_progress is called once per pass, after the barrier and before
\* the pagination query, and a checkpoint written on pass k holds exactly the
\* items listed on passes 1..k, pass by pass.
C8_CheckpointPages ==
    /\ pc \in {"nextq", "click"} => saveCalls = page
    /\ pc \in {"save", "dump"} => saveCalls + 1 >= page /\ AllCompleted
    /\ (pc = "nextq" /\ fileState = "complete" /\ savedPage = page) =>
          HoldsPages(file, page)

\* C9: once a checkpoint holding records is complete on disk, the file stays
\* a complete snapshot at every later point (so that a crash at any point
\* leaves one): no step leaves it empty or partial, and what it held is kept.
C9_CheckpointIntact ==
    [][(fileState = "complete" /\ file # <<>>) =>
          /\ fileState' = "complete"
          /\ Len(file) <= Len(file')
          /\ file = SubSeq(file', 1, Len(file))]_vars

\* C10: when on the first pass the listing does not render, or the parsed
\* list is empty, the loop is left at once: no checkpoint write, no unit
\* submitted, no pagination query and no advance, nothing recorded; and when
\* the run is over quit was called on every session of the pool.
C10_FirstPageFatal ==
    (page = 1 /\ (exit = "render" \/ (Len(listed) = 1 /\ listed[1] = <<>>))) =>
        /\ pc \in {"finally", "done"}
        /\ saveCalls = 0 /\ fileState = "none"
        /\ units = <<>> /\ funds_data = <<>>
        /\ nextQueries = 0 /\ advances = 0
        /\ pc = "done" => \A s \in Sessions : quits[s] = 1

\* the run is over after a first page that did not render or listed nothing
C10_Witness ==
    /\ pc = "done" /\ page = 1 /\ created = MaxWorkers
    /\ exit \in {"render", "empty"}
    /\ \A s \in Sessions : quits[s] = 1

\* C11: click_next_button is called only directly after
\* is_next_button_available returned True for the current page (the step
\* after that answer is the advance, and nothing else is); once it returned
\* False the loop is left and no advance is made again; and when it returned
\* False on the first page, no advance was made at all and the loop ended
\* after that single page was processed.
C11_AdvanceOnlyWhenAvailable ==
    /\ [][advances' # advances =>
            /\ pc = "click" /\ next_available = "true"
            /\ nextQueries = page /\ advances = page - 1
            /\ advances' = advances + 1]_vars
    /\ [][pc' = "click" =>
            pc = "nextq" /\ next_available' = "true"
                /\ nextQueries' = nextQueries + 1]_vars
    /\ [][pc = "click" => advances' = advances + 1]_vars
    /\ [][next_available = "false" =>
            /\ pc \in {"finally", "done"}
            /\ advances' = advances /\ next_available' = "false"]_vars
    /\ []((next_available = "false" /\ page = 1) =>
            advances = 0 /\ Len(listed) = 1 /\ saveCalls = 1)

\* one advance was made from page 1 after the control was found, and on
\* page 2 the control was not available: the run is over
C11_Witness ==
    /\ pc = "done" /\ page = 2
    /\ advances = 1 /\ nextQueries = 2 /\ next_available = "false"

\* C12: click_next_button returns True, and `page` is incremented, only if
\* the listing actually changed: the session shows another listing page
\* whose first fund name differs from the one read before the click; and
\* when the listing's first fund name did not change, the advance returns
\* False and the loop is left without another try.
C12_AdvanceMeansChanged ==
    /\ [][(pc = "click" /\ page' = page + 1) =>
            /\ url'[main_driver] # url[main_driver]
            /\ FirstFundName(url'[main_driver]) # prev_first_fund]_vars
    /\ [][(pc = "click" /\ pc' # "click"
                /\ FirstFundName(url'[main_driver]) = prev_first_fund) =>
            page' = page /\ pc' = "finally" /\ exit' = "advance"]_vars

\* page 1 listed 3 funds, get_fund_isin returned an identifier for each of
\* them from its first attempt, and the site has a second page
ThreeFirstTries ==
    /\ page = 1 /\ Len(listed) = 1 /\ Len(listed[1]) = 3
    /\ Len(units) = 3 /\ firstTries = 3
    /\ Len(site) > 1

\* C13: when page 1 has 3 funds that all succeed on the first attempt and
\* the listing has a next page, then after the fan-out funds_data holds
\* exactly those 3, a checkpoint written completely lists exactly those 3,
\* and when the pass is over and no fault ended it, exactly one advance has
\* been attempted.
C13_ThreeThenAdvance ==
    ThreeFirstTries =>
        /\ pc # "barrier" =>
              Len(funds_data) = 3 /\ HoldsPages(funds_data, 1)
        /\ (pc \in {"nextq", "click", "finally", "done"}
                /\ fileState = "complete") => file = funds_data
        /\ (pc \in {"finally", "done"} /\ exit # "fault") => advances = 1

\* C14: when scrape() is over, however it ended, quit was called exactly
\* once on every session that setup_driver created during the run (and on
\* no other); before the finally block no quit has been called.
C14_QuitOnceEach ==
    /\ pc = "done" =>
          \A s \in Sessions : quits[s] = IF s <= created THEN 1 ELSE 0
    /\ pc # "done" => \A s \in Sessions : quits[s] = 0

\* C15: a failed checkpoint write is not fatal: no step of save_progress
\* changes funds_data or leaves the loop (it does not raise), a call that
\* failed is followed by the pagination query of the same pass, and a later
\* call that completes, on the next processed page, writes the whole of
\* funds_data, the records of the page whose write failed included.
C15_SaveFailureNotFatal ==
    /\ [][(pc \in {"save", "dump"}) =>
            /\ funds_data' = funds_data
            /\ exit' = exit /\ pc' \in {"dump", "nextq"}]_vars
    /\ [][failedSaves' # failedSaves =>
            pc \in {"save", "dump"} /\ pc' = "nextq"]_vars
    /\ [][(pc = "dump" /\ fileState' = "complete") =>
            file' = funds_data /\ savedPage' = page]_vars

\* the checkpoint of page 1 failed, the run went on to page 2, and the
\* checkpoint of page 2 was written: it holds the records of both pages
C15_Witness ==
    /\ page = 2 /\ pc = "nextq" /\ saveCalls = 2 /\ failedSaves = 1
    /\ fileState = "complete" /\ savedPage = 2
    /\ file = funds_data /\ Len(file) >= 2
    /\ \E n \in 1..Len(file) : Base(file[n]) = listed[1][1]

\* the loop of scrape() has been left
LoopLeft == pc \in {"finally", "done"}

C17_SaveIdempotent ==
    [][(pc = "dump" /\ fileState' = "complete" /\ savedPage > 0
            /\ Dumped(funds_data) = lastSaved) =>
          file' = lastSaved]_vars

\* the checkpoints of page 1 and of page 2 were both written, and no unit
\* of page 2 appended: every one of them raised
C17_Witness ==
    /\ pc = "nextq" /\ page = 2 /\ saveCalls = 2 /\ failedSaves = 0
    /\ fileState = "complete" /\ savedPage = 2
    /\ units # <<>> /\ \A i \in UnitIds : units[i].st = "raised"
    /\ file # <<>> /\ file = lastSaved /\ file = Dumped(funds_data)

\* the first pagination step of the run is over: the listing session still
\* showed page 1 of a site that has a second page, and nothing was raised
FirstAdvanceRequest ==
    /\ page = 1 /\ nextQueries = 1 /\ next_available \in {"true", "false"}
    /\ Len(site) > 1 /\ url[main_driver] = Listing(1)

\* C18: on the first advance request, when the pager shows postback anchors
\* and no usable Next link, the crawl advances (by the postback reference);
\* otherwise, with a usable Next link, it advances by that control: in both
\* cases an advance is invoked.
C18_PostbackOrClick ==
    /\ (FirstAdvanceRequest /\ pager = "postback") =>
          pc = "click" \/ advances = 1
    /\ (FirstAdvanceRequest /\ pager = "next" /\ next_available = "true") =>
          pc = "click" \/ advances = 1

\* strategy j of the attempt yields a non-empty stripped text
Yields(j) ==
    call.elements[j].found /\ Strip(call.elements[j].text) # <<>>

\* C19: within an attempt the strategies are tried one by one in the fixed
\* order (primary lookup, then the four fallbacks as listed); the value
\* returned is the stripped text of the first strategy in that order whose
\* stripped text is not empty; and once a value is returned no later
\* strategy and no further attempt is executed.
C19_FirstStrategyWins ==
    /\ [](call.isin # None =>
            /\ call.strategy \in 1..NumStrategies
            /\ Yields(call.strategy)
            /\ call.isin = Strip(call.elements[call.strategy].text)
            /\ \A k \in 1..(call.strategy - 1) : ~Yields(k))
    /\ []((call.isin = None /\ call.attempt > 0) =>
            \A k \in 1..call.strategy : ~Yields(k))
    /\ []((call.isin # None \/ call.strategy = NumStrategies) =>
            call.isin = FirstIsin(call.elements, 1))
    /\ [][call.isin # None => call' = call]_vars
    /\ [][call' # call =>
            \/ call'.attempt = call.attempt
                   /\ call'.strategy = call.strategy + 1
                   /\ call'.elements = call.elements
            \/ call'.attempt = call.attempt + 1 /\ call'.strategy = 0
                   /\ call.strategy = NumStrategies]_vars

\* the primary lookup and the first fallback found nothing usable, the
\* second fallback returned its stripped text although a later strategy
\* held another text
C19_Witness ==
    /\ call.attempt = 2 /\ call.strategy = 3
    /\ call.isin = <<1>>
    /\ ~call.elements[1].found
    /\ call.elements[2].text = <<SP, SP>>
    /\ call.elements[3].text = <<SP, 1, SP>>
    /\ call.elements[5].text = <<2>>

\* C20: get_fund_isin makes at most `retries` attempts, each with one
\* navigation (the step out of "nav"; the lookups that follow do not
\* navigate); a navigation that fails uses up its attempt as an attempt
\* whose lookups fail does, and the next attempt follows while the budget
\* lasts; None is returned only when the budget is used up; and no step
\* inside get_fund_isin raises to process_fund.
C20_RetryBudget ==
    /\ [](\A i \in UnitIds :
            /\ units[i].attempt \in 0..retries
            /\ (units[i].st \in {"lock", "cs"} /\ units[i].isin = None) =>
                  units[i].attempt = retries)
    /\ [][\A i \in UnitIds :
            /\ units[i].st = "nav" =>
                  \/ units'[i] = units[i]
                  \/ /\ units'[i].st = "read"
                     /\ units'[i].attempt = units[i].attempt
                  \/ /\ units[i].attempt < retries
                     /\ units'[i].st = "nav"
                     /\ units'[i].attempt = units[i].attempt + 1
                  \/ /\ units[i].attempt = retries
                     /\ units'[i].st = "lock" /\ units'[i].isin = None
            /\ units[i].st = "read" =>
                  \/ units'[i] = units[i]
                  \/ /\ units'[i].st = "lock" /\ units'[i].isin # None
                     /\ units'[i].attempt = units[i].attempt
                  \/ /\ units[i].attempt < retries
                     /\ units'[i].st = "nav"
                     /\ units'[i].attempt = units[i].attempt + 1
                  \/ /\ units[i].attempt = retries
                     /\ units'[i].st = "lock" /\ units'[i].isin = None
            /\ (units[i].st = "read" /\ units'[i] # units[i]) => url' = url
            /\ (units[i].st = "nav" /\ units'[i] # units[i]) =>
                  \A d \in Sessions :
                      d # drivers[DriverOf(i)] => url'[d] = url[d]]_vars

\* every attempt of a unit ended in a navigation fault: after the third
\* get_fund_isin has returned None, having slept after the first two
C20_Witness ==
    \E i \in UnitIds :
        /\ units[i].st = "lock" /\ units[i].isin = None
        /\ units[i].attempt = retries /\ units[i].empties = 0
        /\ units[i].sleeps = retries - 1

\* C21: at every moment the number of process_fund units executing is at
\* most max_workers, however many funds the page lists.
C21_AtMostMaxWorkers == NumRunning <= MaxWorkers

\* the page lists more funds than the pool has workers: max_workers units
\* execute and one waits in the executor's queue
C21_Witness ==
    /\ Len(units) > MaxWorkers
    /\ NumRunning = MaxWorkers
    /\ \E i \in UnitIds : units[i].st = "queued"

\* C22: when get_fund_links returns an empty list on a page other than the
\* first, the loop is left at once: no unit is submitted, save_progress is
\* not called for that page, pagination is neither queried nor invoked, and
\* funds_data and the checkpoint file stay as they were, then and for the
\* rest of the run.
C22_EmptyLaterPageEndsCrawl ==
    [][/\ (pc = "links" /\ page > 1 /\ page_funds' = <<>>) =>
              /\ pc' = "finally"
              /\ UNCHANGED <<page, units, funds_data, fileVars, pagerVars>>
       /\ (exit = "empty" /\ page > 1) =>
              UNCHANGED <<page, page_funds, units, funds_data, fileVars,
                          pagerVars>>]_vars

\* a run that ended on an empty second page: the first page's records and
\* checkpoint are there, one save, one query and one advance were made
C22_Witness ==
    /\ pc = "done"
    /\ exit = "empty"
    /\ page = 2
    /\ page_funds = <<>>
    /\ funds_data # <<>>
    /\ saveCalls = 1
    /\ savedPage = 1
    /\ nextQueries = 1
    /\ advances = 1

\* C23: click_until_page_visible_and_select makes at most 100 iterations
\* and at most 100 clicks of next; it returns True only after clicking a
\* link labelled with the target or finding a span labelled with it; and
\* it returns False when the next control is missing or disabled, when a
\* navigation fault occurs, and when the iterations are used up.
C23_SelectReturns ==
    /\ walk.it <= MaxIterations
    /\ walk.clicks <= MaxIterations
    /\ walk.result = "true" => walk.why \in {"link", "span"}
    /\ walk.why \in {"nonext", "fault", "exhausted"} => walk.result = "false"

\* C24: between a unit's navigation to its fund's url and its reading of
\* the identifier, its session keeps displaying that fund's detail page (no
\* other unit navigates the session), so every record of funds_data with
\* an identifier holds the identifier printed on its own fund's page.
C24_OwnIdentifier ==
    /\ \A i \in UnitIds :
          units[i].st = "read" =>
              url[drivers[DriverOf(i)]] = page_funds[i].link
    /\ \A n \in 1..Len(funds_data) :
          funds_data[n].isin # None =>
              funds_data[n].isin = Strip(PageIsin(funds_data[n].link))

====
